---- MODULE Spec2Model ----
(***************************************************************************)
(* Transaction anomaly detection engine of FinAI (src/anomaly_router.py):  *)
(* the timestamp normaliser, the PII masker, the rule-based detector, the  *)
(* demo detector, the lazily loaded statistical detector and the three     *)
(* HTTP operations in front of them.                                       *)
(*                                                                         *)
(* Conventions.  A Python str that the code inspects character by          *)
(* character (the text given to mask_personal_data, a string stored under  *)
(* meta["hour"], a merchant name) is a sequence of one-character strings.  *)
(* An ISO timestamp is a sequence of lexical fields (see Timestamps).      *)
(* Money is an exact number; the history averages of the model are         *)
(* multiples of 5 so that avg * 0.6 is exact.  A call that can raise       *)
(* yields [exc, value]: exc = "" when it returned value.                   *)
(***************************************************************************)
EXTENDS Integers, Sequences, FiniteSets, TLC

VARIABLES
    \* ---- the process (specification Spec) ----
    _ml_model,        \* module global _ml_model: 0 is None, n > 0 the n-th loaded object
    artifact_exists,  \* os.path.exists(ML_MODEL_PATH)
    loads,            \* number of joblib.load calls made so far
    pc,               \* per caller: position inside its current request
    req,              \* per caller: the TxIn object of its current request
    sent,             \* per caller: that transaction as the client sent it
    history,          \* per caller: the user_history object of its request
    model,            \* per caller: ml_detector's local variable model
    resp,             \* per caller: the HTTP answer of its last request
    calls,            \* requests started so far, by all callers
    \* ---- one call of a pure function (SpecHour, SpecRule, SpecMask) ----
    tx,               \* the TxIn argument
    user_history,     \* the history argument
    utcnow_hour,      \* datetime.utcnow().hour at the time of the call
    result,           \* what the call produced
    text,             \* argument of mask_personal_data
    masked,           \* mask_personal_data(text)
    remasked,         \* mask_personal_data(masked)
    phase             \* "init" before the call, then "called" (and "again")

vars == <<_ml_model, artifact_exists, loads, pc, req, sent, history, model, resp, calls,
          tx, user_history, utcnow_hour, result, text, masked, remasked, phase>>

procVars == <<_ml_model, artifact_exists, loads, pc, req, sent, history, model, resp,
              calls>>
callVars == <<tx, user_history, utcnow_hour, result>>
maskVars == <<text, masked, remasked>>

----------------------------------------------------------------------------
(* Values shared by the models of the Python functions.                    *)

Returned(v) == [exc |-> "", value |-> v]
Raised(e) == [exc |-> e, value |-> 0]

Digits == {"0", "1", "2", "3", "4", "5", "6", "7", "8", "9"}

DigitVal ==
    [c \in Digits |->
        CASE c = "0" -> 0 [] c = "1" -> 1 [] c = "2" -> 2 [] c = "3" -> 3
          [] c = "4" -> 4 [] c = "5" -> 5 [] c = "6" -> 6 [] c = "7" -> 7
          [] c = "8" -> 8 [] c = "9" -> 9]

NoKeys == [k \in {} |-> 0]

\* dict.get(key, default)
Get(d, key, default) == IF key \in DOMAIN d THEN d[key] ELSE default

\* A Python value stored in the open-ended meta mapping: an int n, a float
\* given in tenths (n = 37 is 3.7), a str s, or None.
PyInt(n) == [t |-> "int", n |-> n, s |-> <<>>]
PyFloat10(n) == [t |-> "float", n |-> n, s |-> <<>>]
PyStr(s) == [t |-> "str", n |-> 0, s |-> s]
PyNone == [t |-> "None", n |-> 0, s |-> <<>>]

RECURSIVE DecimalValue(_)
DecimalValue(s) ==
    IF s = <<>> THEN 0
    ELSE 10 * DecimalValue(SubSeq(s, 1, Len(s) - 1)) + DigitVal[s[Len(s)]]

\* Python's int(x): identity on int, truncation toward zero on float, decimal
\* parse of a str (ValueError unless it is an optional sign and digits),
\* TypeError on None.
int(x) ==
    CASE x.t = "int" -> Returned(x.n)
      [] x.t = "float" ->
            Returned(IF x.n >= 0 THEN x.n \div 10 ELSE -((-x.n) \div 10))
      [] x.t = "str" ->
            LET neg == x.s # <<>> /\ x.s[1] = "-"
                body == IF neg THEN Tail(x.s) ELSE x.s
            IN  IF body # <<>> /\ \A i \in 1..Len(body) : body[i] \in Digits
                THEN Returned(IF neg THEN -DecimalValue(body) ELSE DecimalValue(body))
                ELSE Raised("ValueError")
      [] x.t = "None" -> Raised("TypeError")

----------------------------------------------------------------------------
(* _parse_iso_hour                                                         *)

\* A timestamp is the sequence of its lexical fields:
\*   <<>>                                   the empty string
\*   <<date>>                               "2024-06-01"
\*   <<date, "T", h1, h2, ":00:00">>        "2024-06-01T02:00:00"
\*   <<date, "T", h1, h2, ":00:00", tz>>    "2024-06-01T02:00:00Z"
\* Anything else (a field that is not a date, an hour above 23, an unknown
\* suffix) is a string datetime.fromisoformat rejects.
ValidDates == {"2024-06-01", "2024-01-01"}
ValidOffsets == {"+00:00", "+05:30"}

\* datetime.fromisoformat(ts).hour, or ValueError
fromisoformat_hour(ts) ==
    LET n == Len(ts)
        dateOk == n >= 1 /\ ts[1] \in ValidDates
        timeOk == /\ n \in {5, 6}
                  /\ ts[2] = "T"
                  /\ ts[3] \in Digits /\ ts[4] \in Digits
                  /\ 10 * DigitVal[ts[3]] + DigitVal[ts[4]] <= 23
                  /\ ts[5] = ":00:00"
                  /\ (n = 6 => ts[6] \in ValidOffsets)
    IN  IF dateOk /\ n = 1 THEN Returned(0)
        ELSE IF dateOk /\ timeOk
             THEN Returned(10 * DigitVal[ts[3]] + DigitVal[ts[4]])
             ELSE Raised("ValueError")

\* int(meta.get("hour", datetime.utcnow().hour)), lines 65 and 73
meta_or_utc_hour(meta, now) == int(Get(meta, "hour", PyInt(now)))

\* lines 68-69: a trailing "Z" becomes "+00:00" (ts is not empty)
normalize_z(ts) ==
    IF ts[Len(ts)] = "Z"
    THEN SubSeq(ts, 1, Len(ts) - 1) \o <<"+00:00">>
    ELSE ts

_parse_iso_hour(ts, meta, now) ==
    IF ts = <<>> THEN meta_or_utc_hour(meta, now)
    ELSE LET dt == fromisoformat_hour(normalize_z(ts))
         IN  IF dt.exc = "" THEN dt ELSE meta_or_utc_hour(meta, now)

----------------------------------------------------------------------------
(* mask_personal_data: re.sub(r"\d{8,}", "[MASKED_NUMBER]", text)          *)

MASKED_NUMBER ==
    <<"[", "M", "A", "S", "K", "E", "D", "_", "N", "U", "M", "B", "E", "R", "]">>

\* the lower bound of the quantifier {8,}
MinDigitRun == 8

\* length of the run of digits that starts at position i
RECURSIVE DigitRun(_, _)
DigitRun(t, i) ==
    IF i <= Len(t) /\ t[i] \in Digits THEN 1 + DigitRun(t, i + 1) ELSE 0

\* re.sub scans from the left; at position i the greedy \d{8,} matches the
\* whole run of digits that starts there when it has 8 or more digits, the
\* match is replaced and the scan resumes after it; otherwise the character
\* is copied and the scan moves one position on.
RECURSIVE sub_from(_, _)
sub_from(t, i) ==
    IF i > Len(t) THEN <<>>
    ELSE LET n == DigitRun(t, i)
         IN  IF n >= MinDigitRun
             THEN MASKED_NUMBER \o sub_from(t, i + n)
             ELSE <<t[i]>> \o sub_from(t, i + 1)

\* mutant: the pattern \d{8} without the comma, which matches 8 digits only
RECURSIVE sub_exactly8_from(_, _)
sub_exactly8_from(t, i) ==
    IF i > Len(t) THEN <<>>
    ELSE IF DigitRun(t, i) >= MinDigitRun
         THEN MASKED_NUMBER \o sub_exactly8_from(t, i + MinDigitRun)
         ELSE <<t[i]>> \o sub_exactly8_from(t, i + 1)

mask_exactly8(t) == sub_exactly8_from(t, 1)

mask_personal_data(t) == sub_from(t, 1)

----------------------------------------------------------------------------
(* rule_based_check                                                        *)

\* x * 0.6, exact for the multiples of 5 the model uses
Times06(x) == (x * 6) \div 10

Max(a, b) == IF a >= b THEN a ELSE b
Min(a, b) == IF a <= b THEN a ELSE b

\* the defaults of lines 79-81, 93 and 97
default_avg_amount == 500
\* mutant: the deviation derived from the default average, not from avg
default_std_of_default_avg(avg) == Max(1, Times06(default_avg_amount))
default_std_amount(avg) == Max(1, Times06(avg))
default_median_amount(avg) == avg
default_merchants == <<>>
default_transactions_today == 0

\* x in list
InList(x, list) == \E i \in 1..Len(list) : list[i] = x

\* the seven conditions, lines 85-97
\* mutant: a zero too many
rule1_typo(amount) == amount > 200000
rule1(amount) == amount > 20000
rule2(amount, med) == amount > med * 3
rule3(amount, avg, std) == amount > avg + 3 * std
\* mutant: <= for <
rule4_inclusive(hour) == hour <= 6 \/ hour > 23
rule4(hour) == hour < 6 \/ hour > 23
rule5(merchant, h) == ~InList(merchant, Get(h, "merchants", default_merchants))
rule6(is_international, amount) == is_international /\ amount > 1000
rule7(h) == Get(h, "transactions_today", default_transactions_today) > 10

R1 == "Very large transaction amount"
R2 == "High compared to user's typical transaction"
R3 == "Amount is far outside typical variance"
R4 == "Transaction at unusual hour"
R5 == "Merchant is new/unfamiliar"
R6 == "International high-value transaction"
R7 == "Unusually high transaction frequency today"

When(c, reason) == IF c THEN <<reason>> ELSE <<>>

\* mutant: the merchant rule evaluated before the hour rule
append_reasons_swapped(c1, c2, c3, c4, c5, c6, c7) ==
    When(c1, R1) \o When(c2, R2) \o When(c3, R3) \o When(c5, R5)
        \o When(c4, R4) \o When(c6, R6) \o When(c7, R7)

\* the appends of lines 85-98, in program order
append_reasons(c1, c2, c3, c4, c5, c6, c7) ==
    When(c1, R1) \o When(c2, R2) \o When(c3, R3) \o When(c4, R4)
        \o When(c5, R5) \o When(c6, R6) \o When(c7, R7)

\* mutant: the cap forgotten
score_uncapped(reasons) == (100 * Len(reasons)) \div 5

\* min(1.0, len(reasons) / 5.0); a score is held in hundredths
score_of(reasons) == Min(100, (100 * Len(reasons)) \div 5)

rule_based_check(t, h, now) ==
    LET amount == t.amount
        avg == Get(h, "avg_amount", default_avg_amount)
        std == Get(h, "std_amount", default_std_amount(avg))
        med == Get(h, "median_amount", default_median_amount(avg))
        hour == _parse_iso_hour(t.timestamp, t.meta, now)
    IN  IF hour.exc # "" THEN hour
        ELSE LET reasons ==
                    append_reasons(rule1(amount),
                                   rule2(amount, med),
                                   rule3(amount, avg, std),
                                   rule4(hour.value),
                                   rule5(t.merchant, h),
                                   rule6(t.is_international, amount),
                                   rule7(h))
             IN  Returned([anomaly |-> Len(reasons) > 0,
                           score |-> score_of(reasons),
                           reasons |-> reasons])

Zomato == <<"Z", "o", "m", "a", "t", "o">>
SBI_Card == <<"S", "B", "I", " ", "C", "a", "r", "d">>
Amazon == <<"A", "m", "a", "z", "o", "n">>

get_user_history_stub(user_id) ==
    [avg_amount |-> 600,
     median_amount |-> 350,
     std_amount |-> 400,
     transactions_today |-> 2,
     merchants |-> <<Zomato, SBI_Card, Amazon>>,
     country |-> "IN",
     timezone_offset_hours |-> 55]      \* 5.5, in tenths

----------------------------------------------------------------------------
(* Inputs.                                                                 *)

\* class TxIn, the fields a detector reads (merchant_category and currency
\* are read by none of them)
TxIn(userId, amount, timestamp, merchant, is_international, meta) ==
    [userId |-> userId, amount |-> amount, timestamp |-> timestamp,
     merchant |-> merchant, is_international |-> is_international,
     meta |-> meta]

Unknown_Shop == <<"U", "n", "k", "n", "o", "w", "n", " ", "S", "h", "o", "p">>

Dates == {"2024-06-01", "2024-13-45"}
HourFields == {<<"0", "0">>, <<"0", "2">>, <<"0", "5">>, <<"0", "6">>,
               <<"2", "3">>, <<"2", "4">>, <<"x", "y">>}
Suffixes == {"Z", "+05:30", "+99"}

Timestamps ==
    {<<>>}
      \cup {<<d>> : d \in Dates}
      \cup {<<d, "T", h[1], h[2], ":00:00">> : d \in Dates, h \in HourFields}
      \cup {<<d, "T", h[1], h[2], ":00:00", z>> :
                d \in Dates, h \in HourFields, z \in Suffixes}

MetaHours ==
    {PyInt(3), PyInt(6), PyInt(23), PyInt(24), PyInt(99), PyInt(-1),
     PyFloat10(37), PyStr(<<"7">>), PyStr(<<"-", "2">>),
     PyStr(<<"a", "b", "c">>), PyStr(<<>>), PyNone}

Metas == {NoKeys} \cup {[hour |-> v] : v \in MetaHours}

UtcHours == 0..23

\* values of the variables a specification does not use
NoTx == TxIn("", 0, <<>>, <<>>, FALSE, NoKeys)
NoResult == Raised("not called")

ProcUnused ==
    /\ _ml_model = 0 /\ artifact_exists = FALSE /\ loads = 0
    /\ pc = <<>> /\ req = <<>> /\ model = <<>> /\ resp = <<>> /\ calls = 0
    /\ sent = <<>> /\ history = <<>>
CallUnused ==
    tx = NoTx /\ user_history = NoKeys /\ utcnow_hour = 0 /\ result = NoResult
MaskUnused == text = <<>> /\ masked = <<>> /\ remasked = <<>>

----------------------------------------------------------------------------
(* SpecHour: one call of _parse_iso_hour on any timestamp, metadata and    *)
(* clock.                                                                  *)

InitHour ==
    /\ ProcUnused /\ MaskUnused
    /\ tx \in {TxIn("u1", 0, ts, Zomato, FALSE, m) : ts \in Timestamps, m \in Metas}
    /\ utcnow_hour \in UtcHours
    /\ user_history = NoKeys
    /\ result = NoResult
    /\ phase = "init"

call_parse_iso_hour ==
    /\ phase = "init"
    /\ result' = _parse_iso_hour(tx.timestamp, tx.meta, utcnow_hour)
    /\ phase' = "called"
    /\ UNCHANGED <<procVars, maskVars, tx, user_history, utcnow_hour>>

NextHour == call_parse_iso_hour

SpecHour == InitHour /\ [][NextHour]_vars

----------------------------------------------------------------------------
(* SpecRule: one call of rule_based_check on any transaction and history.  *)

Restrict(f, S) == [k \in S |-> f[k]]

Amounts == {0, 1000, 1001, 1050, 1051, 1400, 1401, 1500, 1501, 1800, 1801,
            20000, 20001, 25000}

RuleTimestamps ==
    {<<>>,
     <<"2024-06-01", "T", "0", "2", ":00:00", "Z">>,
     <<"2024-06-01", "T", "2", "3", ":00:00">>}
RuleMetas == {NoKeys, [hour |-> PyInt(99)], [hour |-> PyStr(<<"a", "b", "c">>)]}
RuleUtcHours == {5, 6}
RuleMerchants == {Zomato, Unknown_Shop}

\* the keys of a history that rule_based_check reads
HistoryKeys ==
    {"avg_amount", "std_amount", "median_amount", "merchants", "transactions_today"}

FullHistories ==
    [avg_amount : {600, 0},
     std_amount : {400, 0},
     median_amount : {350, 7000},
     merchants : {<<Zomato, SBI_Card, Amazon>>},
     transactions_today : {2, 10, 11}]

\* every history with any subset of its fields absent
Histories == {Restrict(h, D) : h \in FullHistories, D \in SUBSET HistoryKeys}

InitRule ==
    /\ ProcUnused /\ MaskUnused
    /\ tx \in {TxIn("u1", a, ts, mch, intl, m) :
                  a \in Amounts, ts \in RuleTimestamps, mch \in RuleMerchants,
                  intl \in BOOLEAN, m \in RuleMetas}
    /\ utcnow_hour \in RuleUtcHours
    /\ user_history \in Histories
    /\ result = NoResult
    /\ phase = "init"

call_rule_based_check ==
    /\ phase = "init"
    /\ result' = rule_based_check(tx, user_history, utcnow_hour)
    /\ phase' = "called"
    /\ UNCHANGED <<procVars, maskVars, tx, user_history, utcnow_hour>>

NextRule == call_rule_based_check

SpecRule == InitRule /\ [][NextRule]_vars

----------------------------------------------------------------------------
(* SpecMask: mask_personal_data applied to a text, then to its own output. *)

MaxSegments == 4

Run7 == <<"1", "2", "3", "4", "5", "6", "7">>
Run8 == <<"1", "2", "3", "4", "5", "6", "7", "8">>
Segments == {<<"a">>, <<"9">>, Run7, Run8}

RECURSIVE Concat(_)
Concat(ss) == IF ss = <<>> THEN <<>> ELSE Head(ss) \o Concat(Tail(ss))

\* "Card ending 123456789012"
CardEnding ==
    <<"C", "a", "r", "d", " ", "e", "n", "d", "i", "n", "g", " ",
      "1", "2", "3", "4", "5", "6", "7", "8", "9", "0", "1", "2">>

Texts ==
    {CardEnding}
      \cup UNION {{Concat(ss) : ss \in [1..n -> Segments]} : n \in 0..MaxSegments}

InitMask ==
    /\ ProcUnused /\ CallUnused
    /\ text \in Texts
    /\ masked = <<>>
    /\ remasked = <<>>
    /\ phase = "init"

call_mask ==
    /\ phase = "init"
    /\ masked' = mask_personal_data(text)
    /\ phase' = "called"
    /\ UNCHANGED <<procVars, callVars, text, remasked>>

call_mask_again ==
    /\ phase = "called"
    /\ remasked' = mask_personal_data(masked)
    /\ phase' = "again"
    /\ UNCHANGED <<procVars, callVars, text, masked>>

NextMask == call_mask \/ call_mask_again

SpecMask == InitMask /\ [][NextMask]_vars

----------------------------------------------------------------------------
(* fake_detector and ml_detector                                           *)

\* fake_detector, r = random.random() in hundredths
fake_detector(r) ==
    IF r < 5
    THEN [anomaly |-> TRUE, score |-> 95,
          reasons |-> <<"Simulated high anomaly (demo)">>]
    ELSE IF r < 20
         THEN [anomaly |-> TRUE, score |-> 60,
               reasons |-> <<"Simulated medium anomaly (demo)">>]
         ELSE [anomaly |-> FALSE, score |-> 5, reasons |-> <<>>]

\* mutant: the append of line 128 outside the if of line 127
ml_result_reason_always(pred, sigmoid) ==
    [anomaly |-> pred = -1,
     score |-> sigmoid,
     reasons |-> <<"ML model flagged as outlier (demo model).">>]

\* lines 122-129 of ml_detector: pred is model.predict(x)[0] and sigmoid the
\* logistic transform of model.decision_function(x)[0], in hundredths
ml_result(pred, sigmoid) ==
    LET is_anom == pred = -1
    IN  [anomaly |-> is_anom,
         score |-> sigmoid,
         reasons |-> IF is_anom
                     THEN <<"ML model flagged as outlier (demo model).">>
                     ELSE <<>>]

\* what the pre-trained classifier may answer for a feature vector
ClassifierAnswers == {[pred |-> -1, sigmoid |-> 38], [pred |-> 1, sigmoid |-> 62]}

----------------------------------------------------------------------------
(* Spec: the process.  Callers issue requests to /anomaly/rule,            *)
(* /anomaly/fake and /anomaly/ml.  detect_rule and detect_fake touch no    *)
(* shared state and are one step each.  ml_detector is a plain function    *)
(* that reads and writes the global _ml_model at lines 37, 38 and 39 with  *)
(* no lock: calls made on different threads interleave between those       *)
(* lines, and the model allows every such interleaving.  (Requests served  *)
(* by the async handlers on a single event loop run one after the other,   *)
(* which is one of the interleavings.)                                     *)
(* The artifact file is outside the program: it may be absent at start and *)
(* be put in place at any moment; once there it stays.                     *)

NumCallers == 2
MaxCalls == 3

Callers == 1..NumCallers

ServiceTxs ==
    {TxIn("u1", 25000, <<"2024-06-01", "T", "0", "2", ":00:00", "Z">>,
          Unknown_Shop, TRUE, NoKeys),
     TxIn("u1", 300, <<"2024-06-01", "T", "2", "3", ":00:00">>,
          Zomato, FALSE, NoKeys),
     TxIn("u2", 1051, <<>>, <<"P", "a", "y", " ">> \o Run8, FALSE,
          [hour |-> PyStr(<<"a", "b", "c">>)])}

ServiceUtcHours == {3, 12}
RandomDraws == {4, 5, 19, 20}

NoBody == NoKeys
NoResp == [endpoint |-> "", status |-> 0, body |-> NoBody, did |-> <<>>]

\* mutant: detect_ml without its try/except
detect_ml_status_uncaught(exc) == 500

\* the HTTP status of a handler that let exc escape; detect_ml catches
\* RuntimeError alone (lines 149-152)
detect_ml_status(exc) == IF exc = "RuntimeError" THEN 503 ELSE 500

Answer(endpoint, r, did) ==
    [endpoint |-> endpoint,
     status |-> IF r.exc = "" THEN 200
                ELSE IF endpoint = "ml" THEN detect_ml_status(r.exc) ELSE 500,
     body |-> IF r.exc = "" THEN r.value ELSE NoBody,
     did |-> did]

Init ==
    /\ CallUnused /\ MaskUnused
    /\ phase = "run"
    /\ _ml_model = 0
    /\ artifact_exists = FALSE
    /\ loads = 0
    /\ calls = 0
    /\ pc = [c \in Callers |-> "idle"]
    /\ req = [c \in Callers |-> NoTx]
    /\ sent = [c \in Callers |-> NoTx]
    /\ history = [c \in Callers |-> NoKeys]
    /\ model = [c \in Callers |-> 0]
    /\ resp = [c \in Callers |-> NoResp]

Frame == UNCHANGED <<callVars, maskVars, phase>>

\* the artifact is put at ML_MODEL_PATH while the process runs
install_artifact ==
    /\ ~artifact_exists
    /\ artifact_exists' = TRUE
    /\ UNCHANGED <<_ml_model, loads, pc, req, sent, history, model, resp, calls>>
    /\ Frame

\* mutant: the masked text written back into the transaction
tx_merchant_overwritten(x, masked_merchant) ==
    [x EXCEPT !.merchant = masked_merchant]

\* the TxIn object after detect_rule: line 135 binds the masked text to the
\* local masked_merchant, and neither detect_rule nor rule_based_check
\* assigns a field of tx
tx_after_detect_rule(x, masked_merchant) == x

\* the history after rule_based_check: lines 79-97 only call dict.get
history_after_rule_based_check(h) == h

detect_rule(c) ==
    /\ pc[c] = "idle" /\ calls < MaxCalls
    /\ \E x \in ServiceTxs, now \in ServiceUtcHours :
          LET user_hist == get_user_history_stub(x.userId)
              masked_merchant == mask_personal_data(x.merchant)
              r == rule_based_check(x, user_hist, now)
          IN  /\ sent' = [sent EXCEPT ![c] = x]
              /\ req' = [req EXCEPT ![c] = tx_after_detect_rule(x, masked_merchant)]
              /\ history' = [history EXCEPT ![c] =
                               history_after_rule_based_check(user_hist)]
              /\ resp' = [resp EXCEPT ![c] =
                            Answer("rule", r,
                                   <<"get_user_history_stub", "mask_personal_data",
                                     "rule_based_check">>)]
    /\ calls' = calls + 1
    /\ UNCHANGED <<_ml_model, artifact_exists, loads, pc, model>>
    /\ Frame

\* fake_detector, lines 105-112, reads nothing of tx
tx_after_fake_detector(x) == x

detect_fake(c) ==
    /\ pc[c] = "idle" /\ calls < MaxCalls
    /\ \E x \in ServiceTxs, r \in RandomDraws :
          /\ sent' = [sent EXCEPT ![c] = x]
          /\ req' = [req EXCEPT ![c] = tx_after_fake_detector(x)]
          /\ resp' = [resp EXCEPT ![c] =
                        Answer("fake", Returned(fake_detector(r)), <<"fake_detector">>)]
    /\ history' = [history EXCEPT ![c] = NoKeys]
    /\ calls' = calls + 1
    /\ UNCHANGED <<_ml_model, artifact_exists, loads, pc, model>>
    /\ Frame

\* ml_detector, lines 119-121, reads tx.timestamp, tx.meta, tx.merchant,
\* tx.amount and tx.is_international and assigns none of them
tx_after_ml_detector(x) == x

\* detect_ml is entered: ml_detector calls load_ml_model
detect_ml(c) ==
    /\ pc[c] = "idle" /\ calls < MaxCalls
    /\ \E x \in ServiceTxs :
          /\ sent' = [sent EXCEPT ![c] = x]
          /\ req' = [req EXCEPT ![c] = x]
    /\ history' = [history EXCEPT ![c] = NoKeys]
    /\ resp' = [resp EXCEPT ![c] = NoResp]
    /\ model' = [model EXCEPT ![c] = 0]
    /\ pc' = [pc EXCEPT ![c] = "L37"]
    /\ calls' = calls + 1
    /\ UNCHANGED <<_ml_model, artifact_exists, loads>>
    /\ Frame

\* line 37: if _ml_model is None and os.path.exists(ML_MODEL_PATH)
load_ml_model_test(c) ==
    /\ pc[c] = "L37"
    /\ pc' = [pc EXCEPT ![c] = IF _ml_model = 0 /\ artifact_exists
                               THEN "L38" ELSE "L39"]
    /\ UNCHANGED <<_ml_model, artifact_exists, loads, req, sent, history, model, resp, calls>>
    /\ Frame

\* line 38: _ml_model = joblib.load(ML_MODEL_PATH), a new object each time
load_ml_model_load(c) ==
    /\ pc[c] = "L38"
    /\ loads' = loads + 1
    /\ _ml_model' = loads + 1
    /\ pc' = [pc EXCEPT ![c] = "L39"]
    /\ UNCHANGED <<artifact_exists, req, sent, history, model, resp, calls>>
    /\ Frame

\* line 39, and line 116: model = load_ml_model()
load_ml_model_return(c) ==
    /\ pc[c] = "L39"
    /\ model' = [model EXCEPT ![c] = _ml_model]
    /\ pc' = [pc EXCEPT ![c] = "L117"]
    /\ UNCHANGED <<_ml_model, artifact_exists, loads, req, sent, history, resp, calls>>
    /\ Frame

\* lines 117-118: no model, RuntimeError, which detect_ml turns into a 503
ml_detector_unavailable(c) ==
    /\ pc[c] = "L117" /\ model[c] = 0
    /\ resp' = [resp EXCEPT ![c] =
                  Answer("ml", Raised("RuntimeError"), <<"load_ml_model">>)]
    /\ pc' = [pc EXCEPT ![c] = "idle"]
    /\ UNCHANGED <<_ml_model, artifact_exists, loads, req, sent, history, model, calls>>
    /\ Frame

\* lines 119-129: the hour, the features, the classifier, the answer; an
\* exception of _parse_iso_hour is no RuntimeError and escapes detect_ml
ml_detector_score(c) ==
    /\ pc[c] = "L117" /\ model[c] # 0
    /\ \E now \in ServiceUtcHours, a \in ClassifierAnswers :
          LET hour == _parse_iso_hour(req[c].timestamp, req[c].meta, now)
          IN  resp' = [resp EXCEPT ![c] =
                  IF hour.exc # ""
                  THEN Answer("ml", hour, <<"load_ml_model", "_parse_iso_hour">>)
                  ELSE Answer("ml", Returned(ml_result(a.pred, a.sigmoid)),
                              <<"load_ml_model", "_parse_iso_hour",
                                "decision_function", "predict">>)]
    /\ req' = [req EXCEPT ![c] = tx_after_ml_detector(req[c])]
    /\ pc' = [pc EXCEPT ![c] = "idle"]
    /\ UNCHANGED <<_ml_model, artifact_exists, loads, sent, history, model, calls>>
    /\ Frame

Next ==
    \/ install_artifact
    \/ \E c \in Callers :
          \/ detect_rule(c)
          \/ detect_fake(c)
          \/ detect_ml(c)
          \/ load_ml_model_test(c)
          \/ load_ml_model_load(c)
          \/ load_ml_model_return(c)
          \/ ml_detector_unavailable(c)
          \/ ml_detector_score(c)

Spec == Init /\ [][Next]_vars

----------------------------------------------------------------------------
(* SpecDetect: one call of one of the three strategies.  rule_based_check  *)
(* is called on any transaction and history; fake_detector and ml_detector *)
(* take no history and are called on the transactions given without one.   *)

\* ml_detector as one call: m is what load_ml_model returned, a the
\* classifier's answer for the feature vector
ml_detector(t, m, now, a) ==
    IF m = 0 THEN Raised("RuntimeError")
    ELSE LET hour == _parse_iso_hour(t.timestamp, t.meta, now)
         IN  IF hour.exc # "" THEN hour
             ELSE Returned(ml_result(a.pred, a.sigmoid))

\* random.random(), in hundredths
FakeDraws == 0..99

\* model.predict(x)[0] and the logistic transform of the decision margin
MlAnswers == [pred : {-1, 1}, sigmoid : {1, 38, 50, 62, 99}]

call_fake_detector ==
    /\ phase = "init" /\ user_history = NoKeys
    /\ \E r \in FakeDraws : result' = Returned(fake_detector(r))
    /\ phase' = "fake_detector"
    /\ UNCHANGED <<procVars, maskVars, tx, user_history, utcnow_hour>>

call_ml_detector ==
    /\ phase = "init" /\ user_history = NoKeys
    /\ \E m \in {0, 1}, a \in MlAnswers :
          result' = ml_detector(tx, m, utcnow_hour, a)
    /\ phase' = "ml_detector"
    /\ UNCHANGED <<procVars, maskVars, tx, user_history, utcnow_hour>>

NextDetect == call_rule_based_check \/ call_fake_detector \/ call_ml_detector

SpecDetect == InitRule /\ [][NextDetect]_vars

----------------------------------------------------------------------------
(* Claims about _parse_iso_hour (SpecHour).                                *)

\* the timestamp of the call is empty or datetime.fromisoformat rejects it
ParseFailed(ts) == ts = <<>> \/ fromisoformat_hour(normalize_z(ts)).exc # ""

\* C4: _parse_iso_hour returns an integer in [0,23], whatever the timestamp
\* and whatever the metadata hold (a call that raises returns nothing and is
\* the subject of C5).
C4_HourInRange ==
    (phase = "called" /\ result.exc = "") => result.value \in 0..23

\* C5: _parse_iso_hour never raises; when the timestamp is empty or does not
\* parse it returns meta["hour"] if that entry is present and coercible to
\* an integer, and the current UTC hour otherwise.
C5_NeverRaises ==
    phase = "called" =>
        LET coercible == "hour" \in DOMAIN tx.meta /\ int(tx.meta.hour).exc = ""
        IN  /\ result.exc = ""
            /\ ParseFailed(tx.timestamp) =>
                   result.value = IF coercible THEN int(tx.meta.hour).value
                                  ELSE utcnow_hour


----------------------------------------------------------------------------
(* Claims about rule_based_check (SpecRule).                               *)

RuleReturned == phase = "called" /\ result.exc = ""

\* the history with its absent fields filled in by the documented defaults
Filled(h) ==
    LET avg == IF "avg_amount" \in DOMAIN h THEN h.avg_amount ELSE 500
    IN  [avg_amount |-> avg,
         std_amount |-> IF "std_amount" \in DOMAIN h THEN h.std_amount
                        ELSE IF (avg * 6) \div 10 >= 1 THEN (avg * 6) \div 10 ELSE 1,
         median_amount |-> IF "median_amount" \in DOMAIN h THEN h.median_amount
                           ELSE avg,
         transactions_today |-> IF "transactions_today" \in DOMAIN h
                                THEN h.transactions_today ELSE 0,
         merchants |-> IF "merchants" \in DOMAIN h THEN h.merchants ELSE <<>>]

\* the hour rule 4 looks at
HourOfCall == _parse_iso_hour(tx.timestamp, tx.meta, utcnow_hour).value

\* the condition of each of the seven rules, as the specification words it
Condition(i) ==
    LET h == Filled(user_history)
    IN  CASE i = 1 -> tx.amount > 20000
          [] i = 2 -> tx.amount > 3 * h.median_amount
          [] i = 3 -> tx.amount > h.avg_amount + 3 * h.std_amount
          [] i = 4 -> HourOfCall < 6 \/ HourOfCall > 23
          [] i = 5 -> \A j \in 1..Len(h.merchants) : h.merchants[j] # tx.merchant
          [] i = 6 -> tx.is_international /\ tx.amount > 1000
          [] i = 7 -> h.transactions_today > 10

Triggered == {i \in 1..7 : Condition(i)}

\* C1: the reasons are as many as the rules whose condition holds (k), the
\* verdict is k > 0 and the score is min(1.0, k/5): 0, 0.2, 0.4, 0.6, 0.8 or
\* 1.0, and 1.0 for k = 5, 6 and 7.
C1_CountAndScore ==
    RuleReturned =>
        LET k == Cardinality(Triggered)
        IN  /\ Len(result.value.reasons) = k
            /\ result.value.anomaly = (k > 0)
            /\ result.value.score = IF k >= 5 THEN 100 ELSE 20 * k

\* a call that triggered all seven rules
C1_Witness == RuleReturned /\ Cardinality(Triggered) = 7

\* C2: a transaction that is within every threshold, at an hour in 6..23, at
\* a known merchant, not international above 1000 and on a day of at most
\* 10 transactions is answered anomaly = false, score = 0.0, reasons = [].
C2_QuietTransaction ==
    (RuleReturned /\ Triggered = {}) =>
        result.value = [anomaly |-> FALSE, score |-> 0, reasons |-> <<>>]

\* a quiet call at each end of the hour range, with the amount on a threshold
C2_Witness ==
    /\ RuleReturned /\ Triggered = {}
    /\ HourOfCall \in {6, 23}
    /\ tx.amount = 3 * Filled(user_history).median_amount

RuleOrder == <<"Very large transaction amount",
               "High compared to user's typical transaction",
               "Amount is far outside typical variance",
               "Transaction at unusual hour",
               "Merchant is new/unfamiliar",
               "International high-value transaction",
               "Unusually high transaction frequency today">>

Position(r) == CHOOSE i \in 1..7 : RuleOrder[i] = r

\* C3: the reasons are a subsequence of the seven reasons in rule order: each
\* is one of the seven, they appear in that order, none appears twice.
C3_ReasonsInRuleOrder ==
    RuleReturned =>
        LET rs == result.value.reasons
        IN  /\ \A i \in 1..Len(rs) : \E j \in 1..7 : RuleOrder[j] = rs[i]
            /\ \A i, j \in 1..Len(rs) :
                   i < j => Position(rs[i]) < Position(rs[j])

\* a call with several reasons that are not neighbours in the rule order
C3_Witness ==
    RuleReturned /\ result.value.reasons = <<RuleOrder[2], RuleOrder[5], RuleOrder[7]>>

\* C10: with any subset of the history's fields absent the call does not fail
\* and answers as for the history filled in with the defaults (average 500,
\* deviation max(1, 0.6 * effective average), median the effective average,
\* count 0, no merchants); with an empty history every transaction is
\* flagged, at least as an unfamiliar merchant.  The only failure of the call
\* is a failing _parse_iso_hour (C5), which the history does not influence.
C10_AbsentFieldsDefault ==
    phase = "called" =>
        /\ result = rule_based_check(tx, Filled(user_history), utcnow_hour)
        /\ result.exc # "" =>
               _parse_iso_hour(tx.timestamp, tx.meta, utcnow_hour).exc # ""
        /\ (result.exc = "" /\ DOMAIN user_history = {}) =>
               /\ result.value.anomaly
               /\ \E i \in 1..Len(result.value.reasons) :
                      result.value.reasons[i] = RuleOrder[5]

\* a call on the empty history whose answer rests on the default average,
\* deviation and median: 1500 < 1501 (3 * median) and 1400 < 1401 (variance)
C10_Witness ==
    /\ RuleReturned /\ DOMAIN user_history = {}
    /\ tx.amount = 1401
    /\ result.value.reasons = <<RuleOrder[3], RuleOrder[5]>>

----------------------------------------------------------------------------
(* Claims about mask_personal_data (SpecMask).                             *)

\* t holds a run of 8 or more consecutive digits
HasLongRun(t) ==
    \E i \in 1..Len(t) : i + 7 <= Len(t) /\ \A j \in i..(i + 7) : t[j] \in Digits

\* the maximal runs of 8 or more digits of t, as pairs <<first, last>>
LongRuns(t) ==
    LET starts == {i \in 1..Len(t) :
                      t[i] \in Digits /\ (i = 1 \/ t[i - 1] \notin Digits)}
        last(i) == CHOOSE j \in i..Len(t) :
                      /\ \A k \in i..j : t[k] \in Digits
                      /\ (j = Len(t) \/ t[j + 1] \notin Digits)
    IN  {p \in {<<i, last(i)>> : i \in starts} : p[2] - p[1] >= 7}

\* t with each run of runs replaced by the token, written without a scan:
\* position i yields the token at a run's first position, nothing at its
\* other positions, and its own character outside the runs
Replace(t, runs) ==
    LET piece(i) ==
            IF \E p \in runs : p[1] = i
            THEN <<"[", "M", "A", "S", "K", "E", "D", "_", "N", "U", "M", "B", "E", "R", "]">>
            ELSE IF \E p \in runs : p[1] < i /\ i <= p[2] THEN <<>>
            ELSE <<t[i]>>
    IN  Concat([i \in 1..Len(t) |-> piece(i)])

Redacted(t) == Replace(t, LongRuns(t))

\* C8: the output is the text with every maximal run of 8 or more digits
\* replaced by [MASKED_NUMBER] and nothing else changed; it holds no run of
\* 8 or more digits; a text without such a run is returned unchanged; and
\* masking the output again changes nothing.
C8_MaskRedactsRuns ==
    /\ phase \in {"called", "again"} =>
           /\ masked = Redacted(text)
           /\ ~HasLongRun(masked)
           /\ ~HasLongRun(text) => masked = text
    /\ phase = "again" => remasked = masked

\* a text with two separate long runs, masked twice
C8_Witness ==
    /\ phase = "again"
    /\ Cardinality(LongRuns(text)) = 2
    /\ text # masked

----------------------------------------------------------------------------
(* Claims about the process (Spec).                                        *)

\* C6: however concurrent ml_detector calls interleave, the artifact is read
\* from disk at most once, all callers obtain the same handle, and a loaded
\* handle is neither replaced nor reset: _ml_model is None before the one
\* load and the object of that load ever after.
C6_LoadedAtMostOnce ==
    /\ loads <= 1
    /\ _ml_model = loads
    /\ \A c1, c2 \in Callers :
           (model[c1] # 0 /\ model[c2] # 0) => model[c1] = model[c2]

\* C7: while the artifact does not exist, an ml_detector call ends in the
\* model-unavailable error having done nothing but load_ml_model (no
\* timestamp parsed, no feature computed, no history read), detect_ml
\* answers 503 with no result, nothing is read from disk and the handle
\* stays unloaded.
C7_UnavailableIs503 ==
    ~artifact_exists =>
        /\ _ml_model = 0 /\ loads = 0
        /\ \A c \in Callers :
              /\ pc[c] # "L38"
              /\ model[c] = 0
              /\ resp[c].endpoint = "ml" =>
                    resp[c] = [endpoint |-> "ml", status |-> 503,
                               body |-> NoKeys, did |-> <<"load_ml_model">>]

\* two /anomaly/ml requests were answered 503 and the artifact still does not
\* exist
C7_Witness ==
    /\ ~artifact_exists
    /\ \A c \in Callers : resp[c].endpoint = "ml" /\ resp[c].status = 503

\* the transaction of the end-to-end example
ExampleTx ==
    TxIn("u1", 25000, <<"2024-06-01", "T", "0", "2", ":00:00", "Z">>,
         <<"U", "n", "k", "n", "o", "w", "n", " ", "S", "h", "o", "p">>, TRUE, NoKeys)

\* C9: /anomaly/rule on {amount: 25000, merchant: 'Unknown Shop',
\* is_international: true, timestamp: '2024-06-01T02:00:00Z'} answers the six
\* reasons of rules 1 to 6 in rule order, anomaly = true and score = 1.0.
C9_EndToEndExample ==
    \A c \in Callers :
        (resp[c].endpoint = "rule" /\ req[c] = ExampleTx) =>
            /\ resp[c].status = 200
            /\ resp[c].body =
                  [anomaly |-> TRUE, score |-> 100,
                   reasons |-> SubSeq(RuleOrder, 1, 6)]

\* /anomaly/rule has answered the example transaction
C9_Witness ==
    \E c \in Callers :
        /\ resp[c].endpoint = "rule" /\ req[c] = ExampleTx
        /\ Len(resp[c].body.reasons) = 6

\* a step that is a whole /anomaly/rule or /anomaly/fake request
RuleOrFakeStep == calls' = calls + 1 /\ pc' = pc

\* a step taken by a caller that is inside detect_ml
MlStep == \E c \in Callers : pc[c] # "idle" /\ pc'[c] # pc[c]

\* C11: whatever requests were served, each caller's transaction is as it was
\* sent (the masked merchant of detect_rule is a separate value) and the
\* history given to rule_based_check is as get_user_history_stub made it;
\* a rule-based or demo request leaves the model handle as it was, and the
\* handle changes only in a step of a detect_ml call.
C11_InputsAndHandleUntouched ==
    /\ [](\A c \in Callers :
             /\ req[c] = sent[c]
             /\ resp[c].endpoint = "rule" =>
                   history[c] = get_user_history_stub(sent[c].userId))
    /\ [][/\ RuleOrFakeStep => _ml_model' = _ml_model
          /\ _ml_model' # _ml_model => MlStep]_vars

\* the handle is loaded, /anomaly/rule has answered a transaction whose
\* merchant holds a long digit run, and /anomaly/fake has answered another
C11_Witness ==
    /\ _ml_model # 0
    /\ \E c1, c2 \in Callers :
          /\ resp[c1].endpoint = "rule"
          /\ mask_personal_data(sent[c1].merchant) # sent[c1].merchant
          /\ resp[c2].endpoint = "fake"

----------------------------------------------------------------------------
(* Claims about the three strategies (SpecDetect).                         *)

\* C12: in every result of rule_based_check, fake_detector and ml_detector
\* anomaly is true exactly when there is a reason; fake_detector and
\* ml_detector give at most one reason; and fake_detector gives only
\* (true, 0.95, one reason), (true, 0.6, one reason) or (false, 0.05, none).
C12_AnomalyIffReasons ==
    (phase \in {"called", "fake_detector", "ml_detector"} /\ result.exc = "") =>
        LET v == result.value
        IN  /\ v.anomaly = (Len(v.reasons) > 0)
            /\ phase \in {"fake_detector", "ml_detector"} => Len(v.reasons) <= 1
            /\ phase = "fake_detector" =>
                   <<v.anomaly, v.score, Len(v.reasons)>> \in
                       {<<TRUE, 95, 1>>, <<TRUE, 60, 1>>, <<FALSE, 5, 0>>}

\* ml_detector returned an inlier, which has no reason
C12_Witness ==
    /\ phase = "ml_detector" /\ result.exc = ""
    /\ ~result.value.anomaly /\ result.value.reasons = <<>>

====
